---------------------------- MODULE Spec2Model ----------------------------
(***************************************************************************)
(* A model of the HTTP router of the vector-search service.                *)
(*                                                                         *)
(* The repository holds two versions of the router: src/routes/index.js    *)
(* (the backfill job works in concurrent batches and persists with one     *)
(* bulk write) and src/unnamed/part_000 (the backfill job walks every      *)
(* recipe in turn and persists each vector with its own updateOne).  A     *)
(* process serves one of them; `router` says which.                        *)
(*                                                                         *)
(* Every handler is an async function.  JavaScript runs the code between   *)
(* two awaits without interruption, so one action of the model is the      *)
(* resolution (or rejection) of the call a request is waiting for,         *)
(* together with all the synchronous code that follows it up to the next   *)
(* await or to the response.  A call to the document store takes effect    *)
(* in the step that resolves it.                                           *)
(***************************************************************************)
EXTENDS Integers, Sequences, FiniteSets, TLC

-----------------------------------------------------------------------------
(* Bounds of the model *)

\* documents in the collection: 1..nDocs for some nDocs <= MaxDocs
MaxDocs == 4

\* requests served in one behaviour
MaxRequests == 2

\* request slots (requests that may be in flight together)
MaxSlots == 2

\* documents in the collection when two requests are served together
MaxDocsConcurrent == 2

\* the code's batchSize is 50; the model scales it down so that a run over
\* MaxDocs documents has more than one batch
batchSize == 2

-----------------------------------------------------------------------------
(* Program constants *)

\* embedding.length !== 1536
EmbeddingDim == 1536

\* numCandidates: 100
numCandidates == 100

\* limit < 1 || limit > 50, and the default limit = 10
LimitMin == 1
LimitMax == 50
LimitDefault == 10

-----------------------------------------------------------------------------
(* JavaScript values.  A value is a record [t, n, s]: t its type, n the    *)
(* number in tenths (so that 1.5 is 15), s the characters of a string.     *)

\* the number that is not a number: no value in tenths of the model reaches it
NaN == 0 - 999999

JsUndefined == [t |-> "undefined", n |-> 0, s |-> << >>]
JsNull == [t |-> "null", n |-> 0, s |-> << >>]
JsObject == [t |-> "object", n |-> 0, s |-> << >>]
JsNum(tenths) == [t |-> "number", n |-> tenths, s |-> << >>]
JsInt(i) == JsNum(10 * i)
JsStr(chars) == [t |-> "string", n |-> 0, s |-> chars]

IsSpace(c) == c = " "

\* String.prototype.trim
RECURSIVE TrimLeft(_)
TrimLeft(s) ==
    IF s # << >> /\ IsSpace(Head(s)) THEN TrimLeft(Tail(s)) ELSE s

RECURSIVE TrimRight(_)
TrimRight(s) ==
    IF s # << >> /\ IsSpace(s[Len(s)]) THEN TrimRight(SubSeq(s, 1, Len(s) - 1)) ELSE s

Trim(s) == TrimRight(TrimLeft(s))

Digits == {"0", "1", "2", "3", "4", "5", "6", "7", "8", "9"}

DigitValue(c) ==
    CASE c = "0" -> 0 [] c = "1" -> 1 [] c = "2" -> 2 [] c = "3" -> 3 [] c = "4" -> 4
      [] c = "5" -> 5 [] c = "6" -> 6 [] c = "7" -> 7 [] c = "8" -> 8 [] c = "9" -> 9

RECURSIVE DigitsToInt(_)
DigitsToInt(s) ==
    IF s = << >> THEN 0 ELSE 10 * DigitsToInt(SubSeq(s, 1, Len(s) - 1)) + DigitValue(s[Len(s)])

\* StringToNumber: the trimmed string, "" is 0, decimal digits are their
\* number, anything else is NaN (in tenths)
StringToNumber(s) ==
    LET t == Trim(s)
    IN  IF t = << >> THEN 0
        ELSE IF \A k \in 1..Len(t) : t[k] \in Digits THEN 10 * DigitsToInt(t)
        ELSE NaN

\* ToNumber, as the relational operators apply it to an operand (in tenths)
ToNumber(v) ==
    CASE v.t = "number" -> v.n
      [] v.t = "null" -> 0
      [] v.t = "undefined" -> NaN
      [] v.t = "string" -> StringToNumber(v.s)
      [] v.t = "object" -> NaN

\* a < b and a > b on numbers in tenths: false when an operand is NaN
JsLess(a, b) == a # NaN /\ b # NaN /\ a < b
JsGreater(a, b) == a # NaN /\ b # NaN /\ a > b

\* ToBoolean
Truthy(v) ==
    CASE v.t = "number" -> v.n # 0 /\ v.n # NaN
      [] v.t = "string" -> v.s # << >>
      [] v.t = "object" -> TRUE
      [] OTHER -> FALSE

IsInteger(v) == v.t = "number" /\ v.n # NaN /\ v.n % 10 = 0

-----------------------------------------------------------------------------
(* The document store: the "recipes" collection *)

Docs == 1..MaxDocs

Chars(w) ==
    CASE w = "Soup" -> <<"S", "o", "u", "p">>
      [] w = "Bread" -> <<"B", "r", "e", "a", "d">>
      [] w = "" -> << >>

\* The name field of document d, fixed for the whole behaviour (the handlers
\* never write it): {_id: 1, name: "Soup"}, {_id: 2, name: ""},
\* {_id: 3, name: "Bread"}, {_id: 4, name: null}, {_id: 5} without a name.
NameOf(d) ==
    CASE d % 5 = 1 -> JsStr(Chars("Soup"))
      [] d % 5 = 2 -> JsStr(Chars(""))
      [] d % 5 = 3 -> JsStr(Chars("Bread"))
      [] d % 5 = 4 -> JsNull
      [] d % 5 = 0 -> JsUndefined

\* plot_embedding of a document: NoVec when the field is absent, otherwise
\* the length of the stored array
NoVec == 0

\* MongoDB's { $exists: true }: the document holds the field, whatever its
\* value (null included)
MatchExists(v) == v.t # "undefined"

\* MongoDB's { $ne: "" }
MatchNotEmptyString(v) == v # JsStr(<< >>)

\* const filter = { "name": { "$exists": true, "$ne": "" } }
MatchesFilter(d) == MatchExists(NameOf(d)) /\ MatchNotEmptyString(NameOf(d))

\* the ascending sequence of the members of a set of document ids: find()
\* returns the documents in _id order
RECURSIVE SortedSeq(_)
SortedSeq(S) ==
    IF S = {} THEN << >>
    ELSE LET m == CHOOSE x \in S : \A y \in S : x <= y
         IN  <<m>> \o SortedSeq(S \ {m})

Min(a, b) == IF a <= b THEN a ELSE b

-----------------------------------------------------------------------------
(* What the embedding service answers: the call throws, or                 *)
(* results.data[0].embedding is a value that is an array of some length    *)
(* or no array at all.                                                     *)

EmbedThrow == [kind |-> "throw", len |-> 0]
EmbedNotArray == [kind |-> "notArray", len |-> 0]
EmbedArray(n) == [kind |-> "array", len |-> n]
EmbedResults == {EmbedThrow, EmbedNotArray, EmbedArray(10), EmbedArray(EmbeddingDim)}
NoEmbedding == [kind |-> "none", len |-> 0]

-----------------------------------------------------------------------------
(* Requests *)

Slots == 1..MaxSlots

Kinds == {"createEmbedding", "createSearchIndex", "search", "removeEmbeddings"}

\* req.body.query and req.body.limit of POST /search
Queries ==
    { JsUndefined, JsStr(<< >>), JsStr(<<" ", " ">>), JsStr(<<"s", "o", "u", "p">>), JsInt(42) }

Limits ==
    { JsUndefined, JsNull, JsObject, JsInt(0), JsInt(1), JsNum(15), JsInt(50), JsInt(51),
      JsStr(<<"a", "b", "c">>) }

\* the bodies the clients post: every query with the default limit, and the
\* good query with every limit
GoodQueryValue == JsStr(<<"s", "o", "u", "p">>)
SearchBodies ==
    {[query |-> q, limit |-> JsUndefined] : q \in Queries}
        \cup {[query |-> GoodQueryValue, limit |-> lim] : lim \in Limits}

NoRequest == [kind |-> "none", query |-> JsUndefined, limit |-> JsUndefined]

NoStats ==
    [has |-> FALSE, totalDocuments |-> 0, processedCount |-> 0, errorCount |-> 0,
     updatedCount |-> 0 - 1, documentsWithEmbeddings |-> 0]

\* res: n counts the responses sent
NoResp ==
    [n |-> 0, status |-> 0, success |-> FALSE, error |-> "", message |-> "",
     count |-> 0 - 1, stats |-> NoStats]

\* the handler's local variables
LocInit ==
    [documents |-> << >>, i |-> 0, pending |-> {}, updateDocuments |-> << >>,
     processedCount |-> 0, errorCount |-> 0, limit |-> JsUndefined,
     embedding |-> NoEmbedding]

\* what the request has done upstream (observed, not read by the handlers):
\* the calls it issued, the documents it sent to the embedding service and
\* how the service answered for each, the documents it submitted an update
\* for and those whose updateOne was rejected, the calls that threw outside
\* the try block of one document, whether the index existed
\* when the request started and when it listed the indexes, whether it
\* dropped the index, the arguments of its $vectorSearch and the number of
\* matches that came back
TraceInit ==
    [calls |-> {}, sent |-> {}, outcome |-> [d \in Docs |-> "none"], submitted |-> {},
     updateFailed |-> {}, threw |-> {}, hadIndex |-> FALSE, dropped |-> FALSE, indexSeen |-> "unchecked",
     vsIssued |-> FALSE, vsLimit |-> JsUndefined, vsCandidates |-> 0, nResults |-> 0 - 1]

\* how an embedding call ended, as an observer of the service sees it: it
\* threw, it answered with a vector of the expected length, or it answered
\* with anything else
Observed(e) ==
    IF e.kind = "throw" THEN "threw"
    ELSE IF e.kind = "array" /\ e.len = EmbeddingDim THEN "succeeded"
    ELSE "malformed"

\* per document, whether its embedding call succeeded or failed
Outcome(t) ==
    [d \in Docs |-> IF t.outcome[d] \in {"threw", "malformed"} THEN "failed"
                    ELSE t.outcome[d]]

NoRun == [has |-> FALSE, outcome |-> [d \in Docs |-> "none"], final |-> 0 - 1]

VARIABLES
    router,         \* which version of the router the process serves
    env,            \* process.env: is OPENAI_API_KEY set, is MONGODB_URI set
    nDocs,          \* the collection holds the documents 1..nDocs
    dbConnection,   \* the module's connection flag
    vec,            \* plot_embedding of each document
    hasIndex,       \* does the collection have an index named vector_index
    conc,           \* requests that may be in flight together
    nReq,           \* requests served so far
    pc,             \* per slot: the call the request is waiting for
    rq,             \* per slot: the request
    loc,            \* per slot: the handler's locals
    tr,             \* per slot: the request's upstream trace
    resp,           \* per slot: the response
    lastRun         \* the last backfill run that reported statistics

vars ==
    <<router, env, nDocs, dbConnection, vec, hasIndex, conc, nReq, pc, rq, loc, tr, resp,
      lastRun>>

store == <<vec, hasIndex>>
fixed == <<router, env, nDocs, conc>>

Collection == 1..nDocs

WithVector == {d \in Collection : vec[d] # NoVec}

Routers == {"routes", "part_000"}

\* The module builds its clients as it is loaded, new MongoClient(uri) and
\* new OpenAI({ apiKey }), and both constructors throw without their
\* setting: a process that serves requests has both variables set.
InitWith(c) ==
    /\ router \in Routers
    /\ env = [openaiKey |-> TRUE, mongoUri |-> TRUE]
    /\ nDocs \in 0..MaxDocs
    /\ dbConnection = FALSE
    /\ \E v \in {NoVec, EmbeddingDim} : vec = [d \in Docs |-> IF d <= nDocs THEN v ELSE NoVec]
    /\ hasIndex = FALSE
    /\ conc = c
    /\ nReq = 0
    /\ pc = [r \in Slots |-> "idle"]
    /\ rq = [r \in Slots |-> NoRequest]
    /\ loc = [r \in Slots |-> LocInit]
    /\ tr = [r \in Slots |-> TraceInit]
    /\ resp = [r \in Slots |-> NoResp]
    /\ lastRun = NoRun

Init == InitWith(1)

-----------------------------------------------------------------------------
(* The pieces of a step: where the request goes next, with which locals,   *)
(* which trace, and the response if it sends one.                          *)

Goto(l, t, p) == [pc |-> p, loc |-> l, tr |-> t, resp |-> NoResp]
Reply(l, t, rsp) == [pc |-> "done", loc |-> l, tr |-> t, resp |-> rsp]

\* the request issues the upstream call c
Call(t, c) == [t EXCEPT !.calls = @ \cup {c}]

\* the upstream call c of the request rejects
Rejected(t, c) == [t EXCEPT !.threw = @ \cup {c}]

\* res.status(code).json({ success: false, error: ... })
Failure(code, error) == [NoResp EXCEPT !.n = 1, !.status = code, !.error = error]

\* res.json({ success: true, message: ... })
Success(message) ==
    [NoResp EXCEPT !.n = 1, !.status = 200, !.success = TRUE, !.message = message]

\* the error of the handler's catch block
CatchError(kind) ==
    CASE kind = "createEmbedding" ->
             IF router = "routes" THEN "Failed to create embedding"
             ELSE "Failed to create embeddings"
      [] kind = "createSearchIndex" -> "Failed to create search index"
      [] kind = "search" -> "Failed to perform search"
      [] kind = "removeEmbeddings" -> "Failed to remove embeddings"

\* an error thrown inside the handler's try block
Caught(kind, l, t) == Reply(l, t, Failure(500, CatchError(kind)))

\* the request of slot r takes the step st; a response the step sends is
\* one more response of the request
Take(r, st) ==
    /\ pc' = [pc EXCEPT ![r] = st.pc]
    /\ loc' = [loc EXCEPT ![r] = st.loc]
    /\ tr' = [tr EXCEPT ![r] = st.tr]
    /\ resp' = [resp EXCEPT ![r] = IF st.resp.n = 0 THEN @
                                   ELSE [st.resp EXCEPT !.n = resp[r].n + 1]]

-----------------------------------------------------------------------------
(* POST /search: the input validation.  The handler is mounted with        *)
(* router.post, so its req.method === 'OPTIONS' branch is never taken.     *)

\* const { query, limit = 10 } = req.body: the default replaces undefined only
LimitOf(request) ==
    IF request.limit.t = "undefined" THEN JsInt(LimitDefault) ELSE request.limit

\* !query || typeof query !== 'string' || query.trim().length === 0
InvalidQuery(query) ==
    \/ ~Truthy(query)
    \/ query.t # "string"
    \/ Len(Trim(query.s)) = 0

\* limit < 1 || limit > 50
InvalidLimit(limit) ==
    \/ JsLess(ToNumber(limit), 10 * LimitMin)
    \/ JsGreater(ToNumber(limit), 10 * LimitMax)

\* a slip of the validation below: res.status(400).json(...) without its
\* return, so that the handler goes on after it has answered
SearchValidateNoReturn(request, l, t) ==
    LET limit == LimitOf(request)
        l1 == [l EXCEPT !.limit = limit]
    IN  IF InvalidQuery(request.query) THEN Reply(l1, t, Failure(400, "Invalid query"))
        ELSE [pc |-> "listIndexes", loc |-> l1, tr |-> Call(t, "listIndexes"),
              resp |-> IF InvalidLimit(limit) THEN Failure(400, "Invalid limit value")
                       ELSE NoResp]

\* the handler of POST /search after await connectToDatabase()
SearchValidate(request, l, t) ==
    LET limit == LimitOf(request)
        l1 == [l EXCEPT !.limit = limit]
    IN  IF InvalidQuery(request.query) THEN Reply(l1, t, Failure(400, "Invalid query"))
        ELSE IF InvalidLimit(limit) THEN Reply(l1, t, Failure(400, "Invalid limit value"))
        ELSE Goto(l1, Call(t, "listIndexes"), "listIndexes")

-----------------------------------------------------------------------------
(* connectToDatabase and the arrival of a request *)

\* what each handler does once await connectToDatabase() has returned
AfterConnect(request, l, t) ==
    CASE request.kind = "createEmbedding" -> Goto(l, Call(t, "updateMany"), "clear")
      [] request.kind = "createSearchIndex" ->
             Goto(l, Call([t EXCEPT !.hadIndex = hasIndex], "dropIndex"), "dropIndex")
      [] request.kind = "search" -> SearchValidate(request, l, t)
      [] request.kind = "removeEmbeddings" -> Goto(l, Call(t, "updateMany"), "remove")

\* async function connectToDatabase(), up to its await
connectToDatabase(request, l, t) ==
    IF dbConnection THEN AfterConnect(request, l, t)
    ELSE IF ~env.mongoUri THEN Caught(request.kind, l, t)
    ELSE Goto(l, Call(t, "connect"), "connect")

\* the handlers that start with the OPENAI_API_KEY check
NeedsKey(kind) == kind # "removeEmbeddings"

\* the slots in use: a slot is in use until its response has gone out
InUse == {r \in Slots : pc[r] # "idle"}

FreeSlot(r) == pc[r] = "idle" /\ \A q \in Slots : pc[q] = "idle" => r <= q

\* A request arrives: the handler runs up to its first pending call.
Arrive(r, kind, query, limit) ==
    /\ FreeSlot(r)
    /\ Cardinality(InUse) < conc
    /\ nReq < MaxRequests
    /\ nReq' = nReq + 1
    /\ LET request == [kind |-> kind, query |-> query, limit |-> limit]
       IN  /\ rq' = [rq EXCEPT ![r] = request]
           /\ IF NeedsKey(kind) /\ ~env.openaiKey
              THEN Take(r, Caught(kind, LocInit, TraceInit))
              ELSE Take(r, connectToDatabase(request, LocInit, TraceInit))
    /\ UNCHANGED <<fixed, store, dbConnection, lastRun>>

\* client.connect() resolves or rejects
ConnectResolve(r, ok) ==
    /\ pc[r] = "connect"
    /\ IF ok
       THEN /\ dbConnection' = TRUE
            /\ Take(r, AfterConnect(rq[r], loc[r], tr[r]))
       ELSE /\ dbConnection' = dbConnection
            /\ Take(r, Caught(rq[r].kind, loc[r], Rejected(tr[r], "connect")))
    /\ UNCHANGED <<fixed, store, nReq, rq, lastRun>>

-----------------------------------------------------------------------------
(* GET /removeEmbeddings *)

\* updateMany({ plot_embedding: { $exists: true } }, { $unset: ... })
Unset(v) == [d \in Docs |-> NoVec]

RemoveResolve(r, ok) ==
    /\ pc[r] = "remove"
    /\ IF ok
       THEN /\ vec' = Unset(vec)
            /\ Take(r, Reply(loc[r], tr[r], Success("Embeddings removed successfully")))
       ELSE /\ vec' = vec
            /\ Take(r, Caught("removeEmbeddings", loc[r], Rejected(tr[r], "updateMany")))
    /\ UNCHANGED <<fixed, hasIndex, dbConnection, nReq, rq, lastRun>>

-----------------------------------------------------------------------------
(* GET /createEmbedding: the backfill job *)

\* collection.find(filter) of src/routes/index.js
FindEligible == SortedSeq({d \in Collection : MatchesFilter(d)})

\* collection.find({}) of src/unnamed/part_000
FindAll == SortedSeq(Collection)

\* a slip of the check below: the length of the array is not looked at
InvalidEmbeddingNoLength(e) == e.kind # "array"

\* !Array.isArray(embedding) || embedding.length !== 1536
InvalidEmbedding(e) == e.kind # "array" \/ e.len # EmbeddingDim

\* the embedding call of a document did not give a vector of the job
EmbedFailed(e) == e.kind = "throw" \/ InvalidEmbedding(e)

\* a slip of the slice below: documents.slice(i), without its end
BatchWhole(documents, i) == {documents[k] : k \in (i + 1)..Len(documents)}

\* documents.slice(i, i + batchSize), as the set of its documents
Batch(documents, i) ==
    {documents[k] : k \in (i + 1)..Min(i + batchSize, Len(documents))}

\* one iteration of the for loop of src/routes/index.js: the embedding
\* requests of the whole batch are issued together
StartBatch(l, t) ==
    LET batch == Batch(l.documents, l.i)
    IN  Goto([l EXCEPT !.pending = batch],
             [Call(t, "getEmbedding") EXCEPT !.sent = @ \cup batch], "batch")

\* after the for loop of src/routes/index.js
AfterBatches(l, t) ==
    IF Len(l.updateDocuments) > 0
    THEN Goto(l, [Call(t, "bulkWrite") EXCEPT
                     !.submitted = {l.updateDocuments[k].id : k \in 1..Len(l.updateDocuments)}],
              "bulkWrite")
    ELSE Goto(l, Call(t, "countDocuments"), "countDocuments")

\* the for loop of src/unnamed/part_000 at recipes[i]
ProcessNext(l, t) ==
    IF l.i < Len(l.documents)
    THEN Goto(l, [Call(t, "embeddings.create") EXCEPT !.sent = @ \cup {l.documents[l.i + 1]}],
              "embedOne")
    ELSE Goto(l, Call(t, "countDocuments"), "countDocuments")

\* updateMany (the clear of the stale vectors) resolves; then find is issued
ClearResolve(r, ok) ==
    /\ pc[r] = "clear"
    /\ IF ok
       THEN /\ vec' = Unset(vec)
            /\ Take(r, Goto(loc[r], Call(tr[r], "find"), "find"))
       ELSE /\ vec' = vec
            /\ Take(r, Caught("createEmbedding", loc[r], Rejected(tr[r], "updateMany")))
    /\ UNCHANGED <<fixed, hasIndex, dbConnection, nReq, rq, lastRun>>

\* find(...).toArray() resolves
FindResolve(r, ok) ==
    /\ pc[r] = "find"
    /\ IF ~ok THEN Take(r, Caught("createEmbedding", loc[r], Rejected(tr[r], "find")))
       ELSE IF router = "routes"
       THEN LET l == [loc[r] EXCEPT !.documents = FindEligible]
            IN  IF Len(l.documents) = 0
                THEN Take(r, Reply(l, tr[r], Success("No documents found to process")))
                ELSE Take(r, StartBatch(l, tr[r]))
       ELSE Take(r, ProcessNext([loc[r] EXCEPT !.documents = FindAll], tr[r]))
    /\ UNCHANGED <<fixed, store, dbConnection, nReq, rq, lastRun>>

\* src/routes/index.js: the embedding request of document d of the batch
\* resolves with e; with the last one of the batch Promise.all resolves and
\* the loop goes on
EmbedResolve(r, d, e) ==
    /\ pc[r] = "batch"
    /\ d \in loc[r].pending
    /\ LET l0 == loc[r]
           l1 == IF EmbedFailed(e)
                 THEN [l0 EXCEPT !.errorCount = @ + 1, !.pending = @ \ {d}]
                 ELSE [l0 EXCEPT !.updateDocuments = Append(@, [id |-> d, len |-> e.len]),
                                 !.processedCount = @ + 1,
                                 !.pending = @ \ {d}]
           t1 == [tr[r] EXCEPT !.outcome[d] = Observed(e)]
           l2 == [l1 EXCEPT !.i = @ + batchSize]
       IN  IF l1.pending # {} THEN Take(r, Goto(l1, t1, "batch"))
           ELSE IF l2.i < Len(l2.documents) THEN Take(r, StartBatch(l2, t1))
           ELSE Take(r, AfterBatches(l2, t1))
    /\ UNCHANGED <<fixed, store, dbConnection, nReq, rq, lastRun>>

\* the store applies the updateOne operations ups (a set of indices of
\* updateDocuments): { $set: { plot_embedding: embedding } }
ApplyUpdates(updateDocuments, ups) ==
    [d \in Docs |->
        IF \E k \in ups : updateDocuments[k].id = d
        THEN updateDocuments[CHOOSE k \in ups : updateDocuments[k].id = d].len
        ELSE vec[d]]

\* bulkWrite(updateDocuments, { ordered: false }) resolves, or rejects after
\* the store has applied some of the operations
BulkWriteResolve(r, ok, ups) ==
    /\ pc[r] = "bulkWrite"
    /\ ups \subseteq 1..Len(loc[r].updateDocuments)
    /\ ok => ups = 1..Len(loc[r].updateDocuments)
    /\ vec' = ApplyUpdates(loc[r].updateDocuments, ups)
    /\ IF ok THEN Take(r, Goto(loc[r], Call(tr[r], "countDocuments"), "countDocuments"))
       ELSE Take(r, Caught("createEmbedding", loc[r], Rejected(tr[r], "bulkWrite")))
    /\ UNCHANGED <<fixed, hasIndex, dbConnection, nReq, rq, lastRun>>

\* src/unnamed/part_000: the embedding request of recipes[i] resolves with e
EmbedOneResolve(r, e) ==
    /\ pc[r] = "embedOne"
    /\ LET d == loc[r].documents[loc[r].i + 1]
           t1 == [tr[r] EXCEPT !.outcome[d] = Observed(e)]
       IN  IF EmbedFailed(e)
           THEN Take(r, ProcessNext([loc[r] EXCEPT !.errorCount = @ + 1, !.i = @ + 1], t1))
           ELSE Take(r, Goto([loc[r] EXCEPT !.embedding = e],
                             [Call(t1, "updateOne") EXCEPT !.submitted = @ \cup {d}],
                             "updateOne"))
    /\ UNCHANGED <<fixed, store, dbConnection, nReq, rq, lastRun>>

\* src/unnamed/part_000: updateOne of recipes[i] resolves or rejects; the
\* rejection is caught by the try block of the iteration
UpdateOneResolve(r, ok) ==
    /\ pc[r] = "updateOne"
    /\ LET d == loc[r].documents[loc[r].i + 1]
       IN  IF ok
           THEN /\ vec' = [vec EXCEPT ![d] = loc[r].embedding.len]
                /\ Take(r, ProcessNext([loc[r] EXCEPT !.processedCount = @ + 1, !.i = @ + 1],
                                       tr[r]))
           ELSE /\ vec' = vec
                /\ Take(r, ProcessNext([loc[r] EXCEPT !.errorCount = @ + 1, !.i = @ + 1],
                                       [tr[r] EXCEPT !.updateFailed = @ \cup {d}]))
    /\ UNCHANGED <<fixed, hasIndex, dbConnection, nReq, rq, lastRun>>

\* stats of the response: src/unnamed/part_000 reports no updatedCount
Stats(l) ==
    [has |-> TRUE,
     totalDocuments |-> Len(l.documents),
     processedCount |-> l.processedCount,
     errorCount |-> l.errorCount,
     updatedCount |-> IF router = "routes" THEN Len(l.updateDocuments) ELSE 0 - 1,
     documentsWithEmbeddings |-> Cardinality(WithVector)]

\* countDocuments({ plot_embedding: { $exists: true } }) resolves
CountResolve(r, ok) ==
    /\ pc[r] = "countDocuments"
    /\ IF ok
       THEN Take(r, Reply(loc[r], tr[r],
                          [Success(IF router = "routes" THEN "Embeddings creation completed"
                                   ELSE "Embeddings created successfully")
                              EXCEPT !.stats = Stats(loc[r])]))
       ELSE Take(r, Caught("createEmbedding", loc[r], Rejected(tr[r], "countDocuments")))
    /\ UNCHANGED <<fixed, store, dbConnection, nReq, rq, lastRun>>

-----------------------------------------------------------------------------
(* GET /createSearchIndex *)

\* dropIndex("vector_index") resolves when the index exists and the store
\* answers; it rejects when there is no such index or the store fails.  The
\* rejection is caught and ignored; createIndex is issued either way.
DropIndexResolve(r, ok) ==
    /\ pc[r] = "dropIndex"
    /\ ok => hasIndex
    /\ hasIndex' = IF ok THEN FALSE ELSE hasIndex
    /\ LET t == IF ok THEN [tr[r] EXCEPT !.dropped = TRUE] ELSE Rejected(tr[r], "dropIndex")
       IN  Take(r, Goto(loc[r], Call(t, "createIndex"), "createIndex"))
    /\ UNCHANGED <<fixed, vec, dbConnection, nReq, rq, lastRun>>

\* createIndex({ plot_embedding: 1 }, { name: "vector_index", ... }) resolves:
\* the collection has the index
CreateIndexResolve(r, ok) ==
    /\ pc[r] = "createIndex"
    /\ IF ok
       THEN /\ hasIndex' = TRUE
            /\ Take(r, Goto(loc[r], Call(tr[r], "listIndexes"), "verifyIndex"))
       ELSE /\ hasIndex' = hasIndex
            /\ Take(r, Caught("createSearchIndex", loc[r], Rejected(tr[r], "createIndex")))
    /\ UNCHANGED <<fixed, vec, dbConnection, nReq, rq, lastRun>>

\* a slip of the lookup below: idx.name = "vector_index" assigns, and finds
\* the first index of the collection, which always has its _id_ index
searchIndexAssigned == TRUE

\* indexes.find(idx => idx.name === "vector_index")
searchIndex == hasIndex

\* the trace of a request whose listIndexes has resolved: what the store held
Listed(t) == [t EXCEPT !.indexSeen = IF hasIndex THEN "present" ELSE "absent"]

\* listIndexes().toArray() of the verification resolves
VerifyIndexResolve(r, ok) ==
    /\ pc[r] = "verifyIndex"
    /\ IF ~ok THEN Take(r, Caught("createSearchIndex", loc[r], Rejected(tr[r], "listIndexes")))
       ELSE IF searchIndex
       THEN Take(r, Reply(loc[r], Listed(tr[r]), Success("Search index created successfully")))
       ELSE Take(r, Caught("createSearchIndex", loc[r], Listed(tr[r])))
    /\ UNCHANGED <<fixed, store, dbConnection, nReq, rq, lastRun>>

-----------------------------------------------------------------------------
(* POST /search, after the validation *)

\* the embedding request of the query is issued
QueryEmbed(l, t) == Goto(l, Call(t, "embeddings.create"), "queryEmbed")

\* listIndexes().toArray() resolves: the index check
ListIndexesResolve(r, ok) ==
    /\ pc[r] = "listIndexes"
    /\ IF ~ok THEN Take(r, Caught("search", loc[r], Rejected(tr[r], "listIndexes")))
       ELSE IF ~searchIndex
       THEN Take(r, Reply(loc[r], Listed(tr[r]), Failure(404, "Search index not found")))
       ELSE LET t == Listed(tr[r])
            IN  IF router = "routes"
                THEN Take(r, Goto(loc[r], Call(t, "findOne"), "findOne"))
                ELSE Take(r, QueryEmbed(loc[r], t))
    /\ UNCHANGED <<fixed, store, dbConnection, nReq, rq, lastRun>>

\* src/routes/index.js: findOne({ name: "BBQ Field Peppers ..." }) resolves
\* (with a document or with null) and specificRecipe is set
FindOneResolve(r, ok) ==
    /\ pc[r] = "findOne"
    /\ IF ok THEN Take(r, QueryEmbed(loc[r], tr[r]))
       ELSE Take(r, Caught("search", loc[r], Rejected(tr[r], "findOne")))
    /\ UNCHANGED <<fixed, store, dbConnection, nReq, rq, lastRun>>

\* openai.embeddings.create of the query resolves with e: a rejection has
\* its own catch block; the value is not validated
QueryEmbedResolve(r, e) ==
    /\ pc[r] = "queryEmbed"
    /\ IF e.kind = "throw"
       THEN Take(r, Reply(loc[r], Rejected(tr[r], "embeddings.create"),
                          Failure(500, "Failed to generate embedding")))
       ELSE Take(r, Goto([loc[r] EXCEPT !.embedding = e], Call(tr[r], "find"), "textFind"))
    /\ UNCHANGED <<fixed, store, dbConnection, nReq, rq, lastRun>>

\* the text search find({ $or: [...] }).limit(5).toArray() resolves; then
\* the aggregation with $vectorSearch is issued
TextFindResolve(r, ok) ==
    /\ pc[r] = "textFind"
    /\ IF ok
       THEN Take(r, Goto(loc[r],
                         [Call(tr[r], "aggregate") EXCEPT !.vsIssued = TRUE,
                                                          !.vsLimit = loc[r].limit,
                                                          !.vsCandidates = numCandidates],
                         "aggregate"))
       ELSE Take(r, Caught("search", loc[r], Rejected(tr[r], "find")))
    /\ UNCHANGED <<fixed, store, dbConnection, nReq, rq, lastRun>>

\* the store answers a $vectorSearch only for a queryVector that is an
\* array and a limit that is an integer
StoreAccepts(e, limit) == e.kind = "array" /\ IsInteger(limit) /\ limit.n >= 10

\* the answer to searchResults.length === 0 in src/routes/index.js
EmptyResults(l, t) ==
    Reply(l, t, [Success("No results found") EXCEPT !.count = 0])

\* the same in src/unnamed/part_000: the debug object reads specificRecipe,
\* which that file never declares, so building the answer throws a
\* ReferenceError inside the handler's try block
EmptyResultsUndeclared(l, t) == Caught("search", l, t)

\* aggregate([...]).toArray() resolves with n matches, or rejects
AggregateResolve(r, ok, n) ==
    /\ pc[r] = "aggregate"
    /\ ok => StoreAccepts(loc[r].embedding, loc[r].limit)
    /\ n \in 0..Min(Cardinality(WithVector), (loc[r].limit.n) \div 10)
    /\ ~ok => n = 0
    /\ LET t == [tr[r] EXCEPT !.nResults = IF ok THEN n ELSE 0 - 1]
       IN  IF ~ok THEN Take(r, Caught("search", loc[r], Rejected(t, "aggregate")))
           ELSE IF n = 0
           THEN IF router = "routes" THEN Take(r, EmptyResults(loc[r], t))
                ELSE Take(r, EmptyResultsUndeclared(loc[r], t))
           ELSE Take(r, Reply(loc[r], t,
                              [Success("Search completed successfully") EXCEPT !.count = n]))
    /\ UNCHANGED <<fixed, store, dbConnection, nReq, rq, lastRun>>

-----------------------------------------------------------------------------
(* The response has gone out: the slot is free again.  A backfill run that *)
(* reported statistics is remembered as the last run.                      *)

Recycle(r) ==
    /\ pc[r] = "done"
    /\ pc' = [pc EXCEPT ![r] = "idle"]
    /\ rq' = [rq EXCEPT ![r] = NoRequest]
    /\ loc' = [loc EXCEPT ![r] = LocInit]
    /\ tr' = [tr EXCEPT ![r] = TraceInit]
    /\ resp' = [resp EXCEPT ![r] = NoResp]
    /\ lastRun' = IF rq[r].kind = "createEmbedding" /\ resp[r].stats.has
                  THEN [has |-> TRUE, outcome |-> Outcome(tr[r]),
                        final |-> resp[r].stats.documentsWithEmbeddings]
                  ELSE lastRun
    /\ UNCHANGED <<fixed, store, dbConnection, nReq>>

-----------------------------------------------------------------------------

Next ==
    \/ \E r \in Slots, k \in Kinds \ {"search"} : Arrive(r, k, JsUndefined, JsUndefined)
    \/ \E r \in Slots, b \in SearchBodies : Arrive(r, "search", b.query, b.limit)
    \/ \E r \in Slots, ok \in BOOLEAN : ConnectResolve(r, ok)
    \/ \E r \in Slots, ok \in BOOLEAN : RemoveResolve(r, ok)
    \/ \E r \in Slots, ok \in BOOLEAN : ClearResolve(r, ok)
    \/ \E r \in Slots, ok \in BOOLEAN : FindResolve(r, ok)
    \/ \E r \in Slots, d \in Docs, e \in EmbedResults : EmbedResolve(r, d, e)
    \/ \E r \in Slots, ok \in BOOLEAN, ups \in SUBSET (1..MaxDocs) : BulkWriteResolve(r, ok, ups)
    \/ \E r \in Slots, e \in EmbedResults : EmbedOneResolve(r, e)
    \/ \E r \in Slots, ok \in BOOLEAN : UpdateOneResolve(r, ok)
    \/ \E r \in Slots, ok \in BOOLEAN : CountResolve(r, ok)
    \/ \E r \in Slots, ok \in BOOLEAN : DropIndexResolve(r, ok)
    \/ \E r \in Slots, ok \in BOOLEAN : CreateIndexResolve(r, ok)
    \/ \E r \in Slots, ok \in BOOLEAN : VerifyIndexResolve(r, ok)
    \/ \E r \in Slots, ok \in BOOLEAN : ListIndexesResolve(r, ok)
    \/ \E r \in Slots, ok \in BOOLEAN : FindOneResolve(r, ok)
    \/ \E r \in Slots, e \in EmbedResults : QueryEmbedResolve(r, e)
    \/ \E r \in Slots, ok \in BOOLEAN : TextFindResolve(r, ok)
    \/ \E r \in Slots, ok \in BOOLEAN, n \in 0..MaxDocs : AggregateResolve(r, ok, n)
    \/ \E r \in Slots : Recycle(r)

Spec == Init /\ [][Next]_vars

\* The same router serving two requests at a time: a handler suspended at an
\* await leaves the event loop to the handler of another request.
InitConcurrent == InitWith(2) /\ nDocs <= MaxDocsConcurrent

SpecConcurrent == InitConcurrent /\ [][Next]_vars

-----------------------------------------------------------------------------
(* Terms of the claims *)

Backfill(r) == rq[r].kind = "createEmbedding"
Search(r) == rq[r].kind = "search"
Provision(r) == rq[r].kind = "createSearchIndex"
Done(r) == pc[r] = "done"

\* the backfill run of slot r has answered with its statistics
Reported(r) == Backfill(r) /\ Done(r) /\ resp[r].stats.has

Failed(r) == {d \in Docs : Outcome(tr[r])[d] = "failed"}

\* the embedding service answered for document d with a value that is not an
\* array of EmbeddingDim elements
Malformed(r, d) == tr[r].outcome[d] = "malformed"

\* the documents the run of slot r holds an update entry for
UpdateIds(r) == {loc[r].updateDocuments[k].id : k \in 1..Len(loc[r].updateDocuments)}

\* a route answers InvalidRequest
InvalidRequest(r) == Done(r) /\ resp[r].n = 1 /\ resp[r].status = 400 /\ ~resp[r].success

\* the embedding service was called for the request of slot r
CalledEmbedding(r) == tr[r].calls \cap {"getEmbedding", "embeddings.create"} # {}

-----------------------------------------------------------------------------
(* C1 *)

\* The counts of a run of slot r agree with the outcomes of its embedding
\* calls: N documents, K failed calls, N-K processed, K errors, N-K updates.
CountsAgree(r) ==
    LET N == Len(loc[r].documents)
        K == Cardinality(Failed(r))
        st == resp[r].stats
    IN  /\ st.totalDocuments = N
        /\ st.processedCount = N - K
        /\ st.errorCount = K
        /\ Cardinality(tr[r].submitted) = N - K
        /\ router = "routes" => st.updatedCount = N - K
        /\ st.processedCount + st.errorCount = st.totalDocuments

\* C1: every backfill run that reports statistics over N documents of which
\* K embedding attempts failed reports processedCount = N-K and
\* errorCount = K, and has submitted exactly N-K updates.
C1_CountsMatchOutcomes == \A r \in Slots : Reported(r) => CountsAgree(r)

\* C1, for the batch job of src/routes/index.js alone (holds)
C1_BatchJobCounts == \A r \in Slots : Reported(r) /\ router = "routes" => CountsAgree(r)

\* C1, as src/unnamed/part_000 has it: a rejected updateOne is counted as
\* an error of its document (holds)
C1_SequentialJobCounts ==
    \A r \in Slots :
        Reported(r) /\ router = "part_000" =>
            LET N == Len(loc[r].documents)
                K == Cardinality(Failed(r))
                U == Cardinality(tr[r].updateFailed)
                st == resp[r].stats
            IN  /\ st.processedCount = N - K - U
                /\ st.errorCount = K + U
                /\ Cardinality(tr[r].submitted) = N - K

-----------------------------------------------------------------------------
(* C2 *)

\* C2: in a backfill run a document whose embedding call returned a value
\* that is not an array of 1536 elements is counted as an error, gets no
\* update entry and no submitted update, and has no vector when the run
\* ends; and every vector a document carries has exactly 1536 elements.
C2_MalformedEmbeddingRejected ==
    /\ \A d \in Docs : vec[d] \in {NoVec, EmbeddingDim}
    /\ \A r \in Slots :
          Backfill(r) =>
              /\ \A k \in 1..Len(loc[r].updateDocuments) :
                    loc[r].updateDocuments[k].len = EmbeddingDim
              /\ loc[r].errorCount >= Cardinality({d \in Docs : Malformed(r, d)})
              /\ loc[r].errorCount = Cardinality(Failed(r) \cup tr[r].updateFailed)
              /\ \A d \in Docs :
                    Malformed(r, d) =>
                        /\ d \notin UpdateIds(r)
                        /\ d \notin tr[r].submitted
                        /\ Done(r) => vec[d] = NoVec

\* a run has ended with its statistics: the service answered for one
\* document with a value that is no vector of 1536 elements, for another
\* with a good vector that is now stored
C2_Witness ==
    \E r \in Slots, d, g \in Docs :
        /\ Reported(r)
        /\ Malformed(r, d)
        /\ resp[r].stats.errorCount >= 1
        /\ vec[d] = NoVec
        /\ tr[r].outcome[g] = "succeeded"
        /\ vec[g] = EmbeddingDim

-----------------------------------------------------------------------------
(* C3 *)

\* C3: a backfill run that follows another one on the same documents, with
\* the same outcome of every document's embedding call, reports the same
\* final count of documents with a vector.
C3_SameFinalCount ==
    \A r \in Slots :
        Reported(r) /\ lastRun.has /\ lastRun.outcome = Outcome(tr[r]) =>
            resp[r].stats.documentsWithEmbeddings = lastRun.final

\* C3, for the batch job of src/routes/index.js alone (holds)
C3_BatchJobSameFinalCount == router = "routes" => C3_SameFinalCount

-----------------------------------------------------------------------------
(* C4 *)

\* the inputs the claim names: limit 0, limit 51 (with a good query), an
\* empty or a whitespace-only query
NamedBadInput(r) ==
    /\ Search(r)
    /\ \/ rq[r].query.t = "string" /\ Trim(rq[r].query.s) = << >>
       \/ /\ rq[r].query = GoodQueryValue
          /\ rq[r].limit \in {JsInt(0), JsInt(51)}

\* C4: a search request with limit 0, limit 51 or an empty or
\* whitespace-only query makes no upstream call at all, the connection to
\* the store included, and is answered InvalidRequest.
C4_RejectedWithoutUpstreamCalls ==
    \A r \in Slots :
        NamedBadInput(r) =>
            /\ tr[r].calls = {}
            /\ Done(r) => InvalidRequest(r)

\* what holds of these requests: nothing but the connection is called
\* upstream, and the answer is InvalidRequest unless the connection fails
C4_OnlyConnects ==
    \A r \in Slots :
        NamedBadInput(r) =>
            /\ tr[r].calls \subseteq {"connect"}
            /\ Done(r) => InvalidRequest(r) \/ (resp[r].status = 500 /\ ~dbConnection)

-----------------------------------------------------------------------------
(* C5 *)

\* an integer between 1 and 50
IntegerInRange(v) == IsInteger(v) /\ v.n >= 10 * LimitMin /\ v.n <= 10 * LimitMax

GoodQuery(r) == rq[r].query.t = "string" /\ Trim(rq[r].query.s) # << >>

\* C5: a search request whose limit is not an integer in [1,50] is answered
\* InvalidRequest, and the limit of every $vectorSearch is an integer in
\* [1,50].
C5_LimitIsIntegerInRange ==
    \A r \in Slots :
        Search(r) =>
            /\ tr[r].vsIssued => IntegerInRange(tr[r].vsLimit)
            /\ Done(r) /\ GoodQuery(r) /\ dbConnection /\ ~IntegerInRange(LimitOf(rq[r]))
                   => InvalidRequest(r)

-----------------------------------------------------------------------------
(* C6 *)

\* C6: a search request that finds no index named vector_index is answered
\* 404 at once, without a call to the embedding service and without a
\* $vectorSearch; a search request calls the embedding service only after
\* it has found the index.
C6_IndexCheckBeforeEmbedding ==
    \A r \in Slots :
        Search(r) =>
            /\ tr[r].indexSeen = "absent" =>
                  /\ Done(r)
                  /\ resp[r].status = 404
                  /\ ~resp[r].success
                  /\ ~CalledEmbedding(r)
                  /\ ~tr[r].vsIssued
            /\ CalledEmbedding(r) \/ tr[r].vsIssued => tr[r].indexSeen = "present"

\* a valid search request has been answered 404 for want of the index
C6_Witness ==
    \E r \in Slots :
        /\ Search(r)
        /\ Done(r)
        /\ GoodQuery(r)
        /\ tr[r].indexSeen = "absent"
        /\ ~hasIndex
        /\ resp[r].status = 404

-----------------------------------------------------------------------------
(* C7 *)

\* C7: a provisioning request that starts when the index exists and is
\* answered with success says that the index already existed, and has not
\* dropped it.
C7_SecondProvisionKeepsIndex ==
    \A r \in Slots :
        Provision(r) /\ tr[r].hadIndex =>
            /\ ~tr[r].dropped
            /\ Done(r) /\ resp[r].success =>
                  resp[r].message # "Search index created successfully"

-----------------------------------------------------------------------------
(* C8 *)

\* C8: the candidate pool of every $vectorSearch with a limit L in [1,50]
\* exceeds L and is at least max(100, 10 L).
C8_CandidatePoolScales ==
    \A r \in Slots :
        tr[r].vsIssued /\ IntegerInRange(tr[r].vsLimit) =>
            LET L == tr[r].vsLimit.n \div 10
            IN  /\ tr[r].vsCandidates > L
                /\ tr[r].vsCandidates >= 100
                /\ tr[r].vsCandidates >= 10 * L

\* what holds: the pool is 100 whatever the limit, which exceeds every
\* accepted integer limit
C8_PoolIsFixed ==
    \A r \in Slots :
        tr[r].vsIssued =>
            /\ tr[r].vsCandidates = 100
            /\ IntegerInRange(tr[r].vsLimit) => tr[r].vsCandidates > tr[r].vsLimit.n \div 10

-----------------------------------------------------------------------------
(* C9 *)

\* the name field exists and is not empty (null is no name)
HasName(d) == NameOf(d).t \notin {"undefined", "null"} /\ NameOf(d) # JsStr(<< >>)

\* C9: a backfill run sends to the embedding service only documents whose
\* name exists and is not empty, and a run that reports its statistics has
\* sent exactly those.
C9_OnlyNamedDocumentsEmbedded ==
    \A r \in Slots :
        Backfill(r) =>
            /\ tr[r].sent \subseteq {d \in Collection : HasName(d)}
            /\ Reported(r) => tr[r].sent = {d \in Collection : HasName(d)}

\* C9 for src/routes/index.js alone (fails on a document whose name is null)
C9_BatchJobOnlyNamed == router = "routes" => C9_OnlyNamedDocumentsEmbedded

\* what holds of src/routes/index.js: a document with an empty or an absent
\* name is never sent
C9_BatchJobSkipsEmptyAndAbsent ==
    \A r \in Slots :
        Backfill(r) /\ router = "routes" =>
            \A d \in tr[r].sent : NameOf(d).t # "undefined" /\ NameOf(d) # JsStr(<< >>)

-----------------------------------------------------------------------------
(* C10 *)

\* C10: a search request whose vector search returned no match is answered
\* with success, an empty result list and count 0.
C10_EmptyResultsAreSuccess ==
    \A r \in Slots :
        Search(r) /\ Done(r) /\ tr[r].nResults = 0 =>
            /\ resp[r].status = 200
            /\ resp[r].success
            /\ resp[r].count = 0

\* C10 for src/routes/index.js alone (holds)
C10_RoutesEmptyResultsAreSuccess == router = "routes" => C10_EmptyResultsAreSuccess

-----------------------------------------------------------------------------
(* C11 *)

\* the embedding requests the run of slot r has issued and not seen resolve
Outstanding(r) == {d \in tr[r].sent : tr[r].outcome[d] = "none"}

\* the barrier: the embedding request of every document of the run has
\* resolved, with a vector or with a failure
AllResolved(r) ==
    \A k \in 1..Len(loc[r].documents) : tr[r].outcome[loc[r].documents[k]] # "none"

\* the run of slot r has cleared the stale vectors and read its documents
Fetched(r) == Backfill(r) /\ Len(loc[r].documents) > 0

\* C11: a backfill run submits an update to the store only after the
\* embedding request of every one of its documents has resolved, and until
\* then no document carries a vector.
C11_PersistAfterBarrier ==
    \A r \in Slots :
        Fetched(r) /\ ~AllResolved(r) =>
            /\ "bulkWrite" \notin tr[r].calls
            /\ tr[r].submitted = {}
            /\ WithVector = {}

\* C11 for src/routes/index.js alone (holds)
C11_BatchJobPersistAfterBarrier == router = "routes" => C11_PersistAfterBarrier

-----------------------------------------------------------------------------
(* C12 *)

\* the batch of the k-th document of a run
BatchOf(k) == (k - 1) \div batchSize

-----------------------------------------------------------------------------
(* C13 *)

\* the calls to the document store that follow the connection
StoreCalls(r) == tr[r].calls \ {"connect", "getEmbedding", "embeddings.create"}

\* the invocations of client.connect() that are pending
Connecting == {r \in Slots : pc[r] = "connect"}

\* C13: client.connect() is invoked at most once unless it fails (the
\* invocations that have not failed are the pending ones and, once
\* dbConnection is set, one that succeeded), and a request calls the store
\* only after a connect has succeeded.
C13_ConnectOnce ==
    /\ Cardinality(Connecting) + (IF dbConnection THEN 1 ELSE 0) <= 1
    /\ \A r \in Slots : StoreCalls(r) # {} => dbConnection

\* what holds: no call to the store before a connect has succeeded
C13_StoreAfterConnect == \A r \in Slots : StoreCalls(r) # {} => dbConnection

\* and no connect is invoked once one has succeeded
C13_NoConnectAfterSuccess == [][dbConnection => Connecting' \subseteq Connecting]_vars

-----------------------------------------------------------------------------
(* C14 *)

\* the request of slot r is waiting for an upstream call
Waiting(r) == pc[r] \notin {"idle", "done"}

\* a request has no response while it waits for an upstream call and
\* exactly one when its handler has ended
OneResponse(r) ==
    /\ Waiting(r) => resp[r].n = 0
    /\ Done(r) => resp[r].n = 1

-----------------------------------------------------------------------------
(* C15 *)

\* every embedding call of the run of slot r so far succeeded and none of
\* its store calls failed
Clean(r) ==
    /\ Backfill(r)
    /\ Failed(r) = {}
    /\ tr[r].updateFailed = {}
    /\ tr[r].threw = {}
    /\ Done(r) => resp[r].success

\* the requests of the behaviour so far are backfill runs, all still in
\* their slots, and nothing failed in any of them
OnlyCleanRuns == nReq = Cardinality(InUse) /\ \A q \in InUse : Clean(q)

\* every document of the run of slot r bears a vector
AllEmbedded(r) ==
    \A k \in 1..Len(loc[r].documents) : vec[loc[r].documents[k]] = EmbeddingDim

\* C15: when backfill runs overlap and nothing fails, each run reports a
\* final count equal to the number of updates it submitted, and once all of
\* them have answered every document of theirs bears a vector.
C15_ConcurrentRunsConsistent ==
    OnlyCleanRuns =>
        /\ \A r \in InUse :
              Reported(r) =>
                  resp[r].stats.documentsWithEmbeddings = Cardinality(tr[r].submitted)
        /\ (\A q \in InUse : Done(q)) => \A r \in InUse : AllEmbedded(r)

\* what holds of overlapping runs: once all have answered, every document
\* of theirs bears a vector
C15_AllEmbeddedAfterBoth ==
    OnlyCleanRuns /\ (\A q \in InUse : Done(q)) => \A r \in InUse : AllEmbedded(r)

\* what holds of a run that no other request overlaps
C15_SingleRunConsistent ==
    OnlyCleanRuns /\ Cardinality(InUse) = 1 =>
        \A r \in InUse :
            Reported(r) =>
                /\ resp[r].stats.documentsWithEmbeddings = Cardinality(tr[r].submitted)
                /\ AllEmbedded(r)

=============================================================================
